---- MODULE Spec2Model ----
(***************************************************************************)
(* Waypoint-graph shortest-path engine of pathrs: the graph builder        *)
(* Dijkstra::new and the query Dijkstra::shortest_path                      *)
(* (src/src/pathfinding.rs), with the distance provider of                  *)
(* src/src/math.rs, the nearest-node scan of src/src/geom.rs, and the loop  *)
(* of main (src/src/main.rs) that solves once per tick.                     *)
(*                                                                         *)
(* Numbers.  The code computes in f32.  The model computes in fixed point:  *)
(* one unit is 1e-4, so the coordinate 1.0 is 10000 and a squared length is *)
(* counted in units of 1e-8.  f32::INFINITY is the largest integer, and     *)
(* addition saturates at it (x + inf = inf).  NaN does not arise: every     *)
(* coordinate is finite.                                                    *)
(***************************************************************************)
EXTENDS Integers, Sequences, FiniteSets, TLC

VARIABLES
    nodes,      \* Dijkstra.nodes / the `nodes` argument of new: index -> point
    edges,      \* the `edges` argument of new, a list of index pairs
    weights,    \* Dijkstra.weights: the flattened N x N matrix, cell (i * N) + j
    pc,         \* where the program is: "new", "idle", "search", "walk", "done", "panic"
    start,      \* shortest_path's argument start
    end,        \* shortest_path's argument end
    costs,      \* shortest_path's local costs
    previous,   \* shortest_path's local previous
    heap,       \* shortest_path's local heap: the entries it holds
    counter,    \* the caller's counter behind the &mut usize argument
    path,       \* shortest_path's local path
    i,          \* the cursor of the predecessor walk
    memo,       \* history: one earlier query and the path it returned, or <<>>
    popped,     \* history: the entries heap.pop() returned in this query, in order,
                \* each with what the loop did with it
    main        \* the locals of main around its loop, a record; <<>> where the
                \* engine is called without the loop

vars == <<nodes, edges, weights, pc, start, end, costs, previous, heap, counter, path, i, memo,
          popped, main>>

(***************************************************************************)
(* Bounds of the model.                                                    *)
(***************************************************************************)
\* The largest number of nodes of a graph laid out on the corners of the square.
MaxCorners == 3

\* The longest edge list handed to new when the list is arbitrary.
MaxEdges == 3

\* Caps that keep the model finite: a query is followed for at most MaxPops + 1
\* pops and a walk for at most MaxWalk + 1 pushes.  The code has no such limits.
MaxPops == 40
MaxWalk == 8

(***************************************************************************)
(* Numbers of the program.                                                 *)
(***************************************************************************)
\* f32::INFINITY
Inf == 2147483647

\* f32::EPSILON = 1.1920929e-7, in units of 1e-8 (a squared length)
EPSILON == 12

IsInfinite(x) == x = Inf

\* f32 addition on non-negative operands: anything plus infinity is infinity.
Add(a, b) == IF IsInfinite(a) \/ IsInfinite(b) THEN Inf ELSE a + b

RECURSIVE SqrtIter(_, _, _)
SqrtIter(x, lo, hi) ==
    IF hi - lo <= 1 THEN lo
    ELSE LET mid == (lo + hi) \div 2
         IN  IF mid * mid <= x THEN SqrtIter(x, mid, hi) ELSE SqrtIter(x, lo, mid)

\* f32::sqrt, rounded down to the unit: the r with r*r <= x < (r+1)*(r+1).
Sqrt(x) == SqrtIter(x, 0, 46340)

\* Dot of a Vec2 with itself.
Dot(d) == (d[1] * d[1]) + (d[2] * d[2])

\* impl Distance<f32> for T: (delta.dot(delta) + f32::EPSILON).sqrt()
distance(a, b) ==
    LET delta == <<a[1] - b[1], a[2] - b[2]>>
    IN  Sqrt(Dot(delta) + EPSILON)

(***************************************************************************)
(* Graph builder: Dijkstra::new.                                           *)
(***************************************************************************)
N == Cardinality(DOMAIN nodes)

\* A faulty variant of InfWeights: the diagonal is filled with 0.
InfWeightsZeroDiagonal(n) ==
    [k \in 0 .. (n * n) - 1 |-> IF k \div n = k % n THEN 0 ELSE Inf]

\* vec![f32::INFINITY; nodes.len() * nodes.len()]
InfWeights(n) == [k \in 0 .. (n * n) - 1 |-> Inf]

\* A faulty variant of WriteEdge: only the cell of the pair as given is written.
WriteEdgeOneWay(w, n, a, b, weight) == [w EXCEPT ![(a * n) + b] = weight]

\* The two writes of one iteration of new's loop.
WriteEdge(w, n, a, b, weight) ==
    [w EXCEPT ![(a * n) + b] = weight, ![(b * n) + a] = weight]

\* The loop of new from entry k of the list on.  nodes[*i] and nodes[*j] are
\* checked slice accesses made before the writes: with an endpoint out of range
\* the call panics and no matrix results, which <<>> stands for.
RECURSIVE NewLoop(_, _, _, _)
NewLoop(w, ns, es, k) ==
    IF k > Len(es) THEN w
    ELSE LET a == es[k][1]
             b == es[k][2]
         IN  IF a \notin DOMAIN ns \/ b \notin DOMAIN ns THEN <<>>
             ELSE NewLoop(WriteEdge(w, Cardinality(DOMAIN ns), a, b,
                                    distance(ns[a], ns[b])), ns, es, k + 1)

\* The weights of Dijkstra::new(nodes, edges), <<>> when the call panics.
NewWeights(ns, es) == NewLoop(InfWeights(Cardinality(DOMAIN ns)), ns, es, 1)

\* The cell of row a, column b of a flattened matrix over n nodes.
W(w, n, a, b) == w[(a * n) + b]

(***************************************************************************)
(* The frontier: BinaryHeap<Node<f32>> under impl Ord for Node<f32>.       *)
(***************************************************************************)
\* f32::total_cmp and usize::cmp, on the model's numbers.
total_cmp(a, b) == IF a < b THEN "Less" ELSE IF a > b THEN "Greater" ELSE "Equal"

\* A faulty variant of cmp: the natural order of the costs, so that the heap is a max-heap
\* of costs.
cmpNatural(self, other) ==
    LET c == total_cmp(self.cost, other.cost)
    IN  IF c # "Equal" THEN c ELSE total_cmp(other.index, self.index)

\* Ord::cmp: other.cost.total_cmp(&self.cost).then_with(|| other.index.cmp(&self.index))
cmp(self, other) ==
    LET c == total_cmp(other.cost, self.cost)
    IN  IF c # "Equal" THEN c ELSE total_cmp(other.index, self.index)

\* BinaryHeap::pop returns a greatest entry.  The heap is held as the list of its
\* entries; cmp is a total order on (cost, index), so entries that compare Equal
\* are the same entry and the entry popped does not depend on the heap's layout.
PopIndex(h) ==
    CHOOSE k \in 1 .. Len(h) :
        /\ \A m \in 1 .. Len(h) : cmp(h[k], h[m]) # "Less"
        /\ \A m \in 1 .. k - 1 : cmp(h[m], h[k]) = "Less"

RemoveAt(h, k) == SubSeq(h, 1, k - 1) \o SubSeq(h, k + 1, Len(h))

(***************************************************************************)
(* Dijkstra::shortest_path.                                                *)
(***************************************************************************)
\* A faulty variant of AllocPrevious: the buffer is filled with 0, not with the sentinel.
AllocPreviousZero(n) == [k \in 0 .. n - 1 |-> 0]

\* A faulty variant of AllocCosts: the buffer of the previous query is reused as it is.
AllocCostsReused(n) == IF DOMAIN costs = 0 .. n - 1 THEN costs ELSE [k \in 0 .. n - 1 |-> Inf]

\* vec![f32::INFINITY; self.nodes.len()]
AllocCosts(n) == [k \in 0 .. n - 1 |-> Inf]

\* A faulty variant of IndexChecked: the index is not checked.
IndexUnchecked(k, n) == TRUE

\* The bounds check of the slice access costs[start] on a Vec of length n.
IndexChecked(k, n) == k \in 0 .. n - 1

\* vec![self.nodes.len(); self.nodes.len()]
AllocPrevious(n) == [k \in 0 .. n - 1 |-> n]

\* A faulty variant of Relaxes: an equal cost also relaxes.
RelaxesOrEqual(cost, old) == cost <= old

\* if cost < costs[j]
Relaxes(cost, old) == cost < old

\* The loop `for j in 0..self.nodes.len()` of one expansion, from column j on;
\* s holds costs, previous and heap.
RECURSIVE RelaxLoop(_, _, _, _, _)
RelaxLoop(s, w, n, node, j) ==
    IF j >= n THEN s
    ELSE IF IsInfinite(W(w, n, node.index, j)) THEN RelaxLoop(s, w, n, node, j + 1)
    ELSE LET cost == Add(node.cost, W(w, n, node.index, j))
         IN  IF Relaxes(cost, s.costs[j])
             THEN RelaxLoop([costs    |-> [s.costs EXCEPT ![j] = cost],
                             previous |-> [s.previous EXCEPT ![j] = node.index],
                             heap     |-> Append(s.heap, [index |-> j, cost |-> cost])],
                            w, n, node, j + 1)
             ELSE RelaxLoop(s, w, n, node, j + 1)

RECURSIVE Reverse(_)
Reverse(p) == IF p = <<>> THEN <<>> ELSE Append(Reverse(Tail(p)), Head(p))

\* A faulty variant of Finish: the collected nodes are not reversed.
FinishNoReverse(p, s) == Append(p, s)

\* A faulty variant of Finish: the start node is not pushed.
FinishNoStart(p, s) == Reverse(p)

\* A faulty variant of Finish: the start node is pushed twice.
FinishStartTwice(p, s) == Reverse(Append(Append(p, s), s))

\* path.push(start); path.reverse(); path
Finish(p, s) == Reverse(Append(p, s))

(***************************************************************************)
(* Inputs: node lists and edge lists.                                      *)
(***************************************************************************)
\* The corners of the unit square, 1.0 being 10000 units.
Points == {<<0, 0>>, <<10000, 0>>, <<10000, 10000>>, <<0, 10000>>}

\* Two sites at distance 1.0: nodes on them coincide or are 1.0 apart.
Sites == {<<0, 0>>, <<10000, 0>>}

\* The square (0,0), (1,0), (1,1), (0,1), walked around: node k is corner k mod 4.
Corner(k) ==
    LET c == k % 4
    IN  IF c = 0 THEN <<0, 0>>
        ELSE IF c = 1 THEN <<10000, 0>>
        ELSE IF c = 2 THEN <<10000, 10000>>
        ELSE <<0, 10000>>

Square(n) == [k \in 0 .. n - 1 |-> Corner(k)]

\* The edges of the 4-cycle 0-1-2-3-0, and the diagonal 0-2.
CycleEdges == <<<<0, 1>>, <<1, 2>>, <<2, 3>>, <<3, 0>>>>
DiagonalEdge == <<<<0, 2>>>>

\* The pairs a < b over n nodes, and the list of a set of pairs in index order.
Pairs(n) == {pr \in (0 .. n - 1) \X (0 .. n - 1) : pr[1] < pr[2]}

RECURSIVE ListOf(_, _)
ListOf(S, n) ==
    IF S = {} THEN <<>>
    ELSE LET first == CHOOSE pr \in S :
                          \A q \in S : (pr[1] * n) + pr[2] <= (q[1] * n) + q[2]
         IN  <<first>> \o ListOf(S \ {first}, n)

\* The lists of at most k pairs over n nodes, in any order, either orientation,
\* with repetitions and with pairs (a, a).
RECURSIVE ListsUpTo(_, _)
ListsUpTo(n, k) ==
    IF k = 0 THEN {<<>>}
    ELSE LET shorter == ListsUpTo(n, k - 1)
         IN  shorter \cup {Append(l, pr) : l \in {x \in shorter : Len(x) = k - 1},
                                            pr \in (0 .. n - 1) \X (0 .. n - 1)}

NotStarted ==
    /\ weights = <<>>
    /\ pc = "new"
    /\ start = 0
    /\ end = 0
    /\ costs = <<>>
    /\ previous = <<>>
    /\ heap = <<>>
    /\ counter = 0
    /\ path = <<>>
    /\ i = 0
    /\ memo = <<>>
    /\ popped = <<>>
    /\ main = <<>>

\* At most MaxCorners nodes on distinct corners, in any order (node 0 at the
\* origin: the distances are unchanged by reflecting the square), any set of
\* edges.
InitLayouts ==
    /\ \E n \in 1 .. MaxCorners :
          /\ nodes \in {f \in [0 .. n - 1 -> Points] :
                          /\ f[0] = <<0, 0>>
                          /\ \A a \in 0 .. n - 1, b \in 0 .. n - 1 : a # b => f[a] # f[b]}
          /\ edges \in {ListOf(S, n) : S \in SUBSET Pairs(n)}
    /\ NotStarted

\* Four nodes, around the square or on the two sites (listed site by site, the
\* nodes at the origin first), any set of edges: the smallest graphs with two
\* routes of several hops between a pair of nodes.
InitFour ==
    /\ nodes \in {Square(4)} \cup {f \in [0 .. 3 -> Sites] :
                                      /\ f[0] = <<0, 0>>
                                      /\ \A k \in 1 .. 3 : f[k - 1][1] <= f[k][1]}
    /\ edges \in {ListOf(S, 4) : S \in SUBSET Pairs(4)}
    /\ NotStarted

\* The nodes around the square, any edge list of at most MaxEdges entries.
InitEdgeLists ==
    /\ \E n \in 1 .. MaxCorners :
          /\ nodes = Square(n)
          /\ edges \in ListsUpTo(n, MaxEdges)
    /\ NotStarted

\* The 4-cycle on the square, with and without the diagonal 0-2.
InitScenario ==
    /\ nodes = Square(4)
    /\ edges \in {CycleEdges, CycleEdges \o DiagonalEdge}
    /\ NotStarted

\* Five nodes: 1 and 2 are equally far from 0, 3 lies on 2 and far from 1, and 4
\* lies beyond 3; any subset of the edges 0-1, 0-2, 1-3, 2-3, 3-4.  With all of
\* them, node 3 is pushed from 1 and pushed again, cheaper, from 2.
FiveNodes ==
    [k \in 0 .. 4 |-> IF k = 0 THEN <<0, 0>>
                      ELSE IF k = 1 THEN <<0, 10000>>
                      ELSE IF k = 4 THEN <<30000, 0>>
                      ELSE <<10000, 0>>]

FiveEdges == {<<0, 1>>, <<0, 2>>, <<1, 3>>, <<2, 3>>, <<3, 4>>}

InitFive ==
    /\ nodes = FiveNodes
    /\ edges \in {ListOf(S, 5) : S \in SUBSET FiveEdges}
    /\ NotStarted

Init == InitLayouts \/ InitFour \/ InitFive \/ InitEdgeLists \/ InitScenario

\* The square with any set of edges.
InitSquare ==
    /\ nodes = Square(4)
    /\ edges \in {ListOf(S, 4) : S \in SUBSET Pairs(4)}
    /\ NotStarted

\* The graphs of the runs that keep a history.
InitHist == InitEdgeLists \/ InitScenario \/ InitSquare

(***************************************************************************)
(* Actions.                                                                *)
(***************************************************************************)
\* Dijkstra::new(nodes, edges): the matrix is returned, or the call panics.
New ==
    /\ pc = "new"
    /\ weights' = NewWeights(nodes, edges)
    /\ pc' = IF NewWeights(nodes, edges) = <<>> THEN "panic" ELSE "idle"
    /\ UNCHANGED <<nodes, edges, start, end, costs, previous, heap, counter, path, i, memo, popped,
                   main>>

\* A faulty variant of CounterReset: the caller's count is kept.
CounterKept(c) == c

\* `*counter = 0;`: the count the loop starts from, whatever the caller held.
CounterReset(c) == 0

\* shortest_path(s, e, counter) up to the loop: the buffers are allocated, the
\* start entry is pushed and the counter is reset; costs[start] = 0.0 panics when
\* start is out of range.  The Vec returned by the
\* previous call is dropped.  The edge list is not read after new: it is
\* forgotten when the first query begins.  The history counts the queries begun
\* since it was written, up to 2.  The locals of the caller are left to the caller.
Begin(s, e) ==
    /\ pc \in {"idle", "done"}
    /\ start' = s
    /\ end' = e
    /\ previous' = AllocPrevious(N)
    /\ path' = <<>>
    /\ i' = e
    /\ IF IndexChecked(s, N)
       THEN /\ costs' = [AllocCosts(N) EXCEPT ![s] = 0]
            /\ heap' = <<[index |-> s, cost |-> 0]>>
            /\ counter' = CounterReset(counter)
            /\ pc' = "search"
       ELSE /\ costs' = AllocCosts(N)
            /\ heap' = <<>>
            /\ counter' = counter
            /\ pc' = "panic"
    /\ edges' = <<>>
    /\ memo' = IF memo = <<>> THEN memo
               ELSE [memo EXCEPT !.later = IF @ < 2 THEN @ + 1 ELSE @]
    /\ popped' = <<>>
    /\ UNCHANGED <<nodes, weights>>

\* A faulty variant of Stale: no popped entry is taken for stale.
StaleNever(best, cost) == FALSE

\* `if costs[node.index] < node.cost { continue; }`: the popped entry is stale
\* when a lower cost than its own is on record for its node.
Stale(best, cost) == best < cost

\* One iteration of `while let Some(node) = heap.pop()`; on break, path and the
\* cursor of the walk are set up.  The history takes the popped entry and, when
\* its neighbours are relaxed, the predecessor on record when it was popped.
Pop ==
    /\ pc = "search"
    /\ heap # <<>>
    /\ counter <= MaxPops
    /\ LET k == PopIndex(heap)
           node == heap[k]
           rest == RemoveAt(heap, k)
       IN  /\ counter' = counter + 1
           /\ IF node.index = end
              THEN /\ heap' = rest
                   /\ pc' = "walk"
                   /\ path' = <<>>
                   /\ i' = end
                   /\ popped' = Append(popped, [node |-> node, did |-> "break"])
                   /\ UNCHANGED <<costs, previous>>
              ELSE IF Stale(costs[node.index], node.cost)
              THEN /\ heap' = rest
                   /\ popped' = Append(popped, [node |-> node, did |-> "continue"])
                   /\ UNCHANGED <<costs, previous, pc, path, i>>
              ELSE LET s == RelaxLoop([costs |-> costs, previous |-> previous,
                                       heap |-> rest], weights, N, node, 0)
                   IN  /\ costs' = s.costs
                       /\ previous' = s.previous
                       /\ heap' = s.heap
                       /\ popped' = Append(popped, [node |-> node, did |-> "relax",
                                                    previous |-> previous[node.index]])
                       /\ UNCHANGED <<pc, path, i>>
    /\ UNCHANGED <<nodes, edges, weights, start, end, memo, main>>

\* heap.pop() returns None: the loop ends with end never popped.
Exhausted ==
    /\ pc = "search"
    /\ heap = <<>>
    /\ pc' = "walk"
    /\ path' = <<>>
    /\ i' = end
    /\ UNCHANGED <<nodes, edges, weights, start, end, costs, previous, heap, counter, memo,
                   popped, main>>

\* One iteration of `while i != start`: path.push(i); i = previous[i].  The index
\* is checked: previous[i] with i out of range panics.
WalkStep ==
    /\ pc = "walk"
    /\ i # start
    /\ Len(path) <= MaxWalk
    /\ path' = Append(path, i)
    /\ IF i \in DOMAIN previous
       THEN /\ i' = previous[i]
            /\ pc' = pc
       ELSE /\ i' = i
            /\ pc' = "panic"
    /\ UNCHANGED <<nodes, edges, weights, start, end, costs, previous, heap, counter, memo,
                   popped, main>>

\* The walk reached start: the path is finished and returned.
WalkEnd ==
    /\ pc = "walk"
    /\ i = start
    /\ path' = Finish(path, start)
    /\ pc' = "done"
    /\ UNCHANGED <<nodes, edges, weights, start, end, costs, previous, heap, counter, i, memo,
                   popped, main>>

\* History only: the query just answered and its path are remembered, once.
Remember ==
    /\ pc = "done"
    /\ memo = <<>>
    /\ memo' = [start |-> start, end |-> end, path |-> path, later |-> 0]
    /\ UNCHANGED <<nodes, edges, weights, pc, start, end, costs, previous, heap, counter, path, i,
                   popped, main>>

\* The steps of a running query.
Step == Pop \/ Exhausted \/ WalkStep \/ WalkEnd

Next ==
    \/ New
    \/ \E s \in 0 .. N - 1, e \in 0 .. N - 1 : Begin(s, e) /\ UNCHANGED main
    \/ Pop
    \/ Exhausted
    \/ WalkStep
    \/ WalkEnd

Spec == Init /\ [][Next]_vars

\* The calls with an index that may be out of range: an edge list with at most
\* one entry that has an endpoint N or N + 1, and queries over 0 .. N + 1.
InsertAt(l, k, x) == SubSeq(l, 1, k) \o <<x>> \o SubSeq(l, k + 1, Len(l))

OutOfRange(n) ==
    {pr \in (0 .. n + 1) \X (0 .. n + 1) : pr[1] >= n \/ pr[2] >= n}

InitIndex ==
    /\ \E n \in 1 .. MaxCorners :
          /\ nodes = Square(n)
          /\ \E S \in SUBSET Pairs(n) :
                 \/ edges = ListOf(S, n)
                 \/ \E k \in 0 .. Cardinality(S), pr \in OutOfRange(n) :
                        edges = InsertAt(ListOf(S, n), k, pr)
    /\ NotStarted

NextIndex ==
    \/ New
    \/ \E s \in 0 .. N + 1, e \in 0 .. N + 1 : Begin(s, e) /\ UNCHANGED main
    \/ Pop
    \/ Exhausted
    \/ WalkStep
    \/ WalkEnd

SpecIndex == InitIndex /\ [][NextIndex]_vars

(***************************************************************************)
(* The loop of main (src/src/main.rs): the floor plan, the waypoint graph  *)
(* main builds from it, and one tick of the simulation.                    *)
(*                                                                         *)
(* Numbers.  Around the loop one unit is 0.25, so that squared lengths in  *)
(* world coordinates fit: FLOOR_SCALE, its half and PLAYER_QUAD_SCALE / 2  *)
(* are whole numbers of units.  EPSILON stays the small positive amount    *)
(* added under the root: it is below the difference of any two squared     *)
(* lengths that the sites of the model produce.                            *)
(***************************************************************************)
\* const PLAYER_QUAD_SCALE: f32 = 16.5
PLAYER_QUAD_SCALE == 66

\* const FLOOR_SCALE: f32 = 35.0
FLOOR_SCALE == 140

\* assets/floor-plan.txt cut at its '\n' bytes: the bytes before each '\n', and
\* last the bytes after the final '\n' (none in a file that ends with one).
PlanRoom ==
    << <<"+", "-", "-", "+">>,
       <<"|", ".", ".", "|">>,
       <<"|", ".", ".", "|">>,
       <<"+", "-", "-", "+">>,
       <<>> >>

PlanDoor ==
    << <<"+", "-", "-", "-", "+">>,
       <<"|", ".", "|", ".", "|">>,
       <<"|", ".", ".", ".", "|">>,
       <<"+", "-", "-", "-", "+">>,
       <<>> >>

PlanSplit ==
    << <<"+", "-", "-", "-", "+">>,
       <<"|", ".", "|", ".", "|">>,
       <<"+", "-", "-", "-", "+">>,
       <<>> >>

\* A file whose last row has no '\n' after it: "+.\n..".
PlanOpen ==
    << <<"+", ".">>,
       <<".", ".">> >>

\* A file with no '\n' at all: "+.".
PlanLine == << <<"+", ".">> >>

Plans == {PlanRoom, PlanDoor, PlanSplit, PlanOpen, PlanLine}

\* The value a u8 holds after wrapping arithmetic.
U8(v) == v % 256

\* The second pass over the bytes: the cells <<x, y, byte>> in reading order.
RECURSIVE CellsFrom(_, _)
CellsFrom(plan, y) ==
    IF y > Len(plan) THEN <<>>
    ELSE [x \in 1 .. Len(plan[y]) |-> <<x - 1, y - 1, plan[y][x]>>] \o CellsFrom(plan, y + 1)

\* The Vec2 { x, y } pushed for the bytes of one kind, in reading order.
Pushed(plan, bytes) ==
    LET cs == SelectSeq(CellsFrom(plan, 1), LAMBDA c : c[3] \in bytes)
    IN  [k \in 1 .. Len(cs) |-> <<cs[k][1], cs[k][2]>>]

\* bounds: Vec2 { x: w, y: h } of the first pass, the greatest x and the
\* greatest y the counters reach: the longest row and the number of '\n' bytes.
\* The rows of the model are far shorter and fewer than 256: x and y do not wrap.
Bounds(plan) ==
    LET ws == {Len(plan[y]) : y \in DOMAIN plan}
    IN  <<CHOOSE m \in ws : \A v \in ws : v <= m, Len(plan) - 1>>

\* The second pass panics on no byte: assert!(x == w) holds at every '\n', every
\* other byte is one of "+-|." (assert!(y == h) cannot fail after the first
\* pass), and horizontals[0] and verticals[0] exist when the walls are built.
Parsed(plan) ==
    /\ \A y \in 1 .. Len(plan) - 1 : Len(plan[y]) = Bounds(plan)[1]
    /\ \A y \in DOMAIN plan : \A x \in DOMAIN plan[y] : plan[y][x] \in {"+", "-", "|", "."}
    /\ \E y \in DOMAIN plan : \E x \in DOMAIN plan[y] : plan[y][x] \in {"+", "-"}
    /\ \E y \in DOMAIN plan : \E x \in DOMAIN plan[y] : plan[y][x] \in {"+", "|"}

\* sort_unstable of a Vec of distinct Vec2<u8>: by x, then by y.
RECURSIVE SortCells(_)
SortCells(S) ==
    IF S = {} THEN <<>>
    ELSE LET m == CHOOSE c \in S :
                      \A d \in S : c[1] < d[1] \/ (c[1] = d[1] /\ c[2] <= d[2])
         IN  <<m>> \o SortCells(S \ {m})

Waypoints(plan) == Pushed(plan, {"."})
Horizontals(plan) == Pushed(plan, {"+", "-"})
Verticals(plan) ==
    LET vs == Pushed(plan, {"+", "|"}) IN SortCells({vs[k] : k \in DOMAIN vs})

\* The two merging loops of `walls`: cell k of cells extends the last wall or
\* starts a new one.
RECURSIVE MergeWalls(_, _, _, _)
MergeWalls(walls, cells, k, horizontal) ==
    IF k > Len(cells) THEN walls
    ELSE LET n == Len(walls)
             c == cells[k]
             last == walls[n]
             fresh == Append(walls, [from |-> c, to |-> c, horizontal |-> horizontal])
         IN  IF horizontal
             THEN IF (last.from[2] # c[2]) \/ (last.to[1] # c[1] - 1)
                  THEN MergeWalls(fresh, cells, k + 1, horizontal)
                  ELSE MergeWalls([walls EXCEPT ![n].to = <<c[1], last.to[2]>>],
                                  cells, k + 1, horizontal)
             ELSE IF (last.from[1] # c[1]) \/ (last.to[2] # c[2] - 1)
                  THEN MergeWalls(fresh, cells, k + 1, horizontal)
                  ELSE MergeWalls([walls EXCEPT ![n].to = <<last.to[1], c[2]>>],
                                  cells, k + 1, horizontal)

Walls(plan) ==
    LET hs == Horizontals(plan)
        vs == Verticals(plan)
        across == MergeWalls(<<[from |-> hs[1], to |-> hs[1], horizontal |-> TRUE]>>,
                             hs, 2, TRUE)
    IN  MergeWalls(Append(across, [from |-> vs[1], to |-> vs[1], horizontal |-> FALSE]),
                   vs, 2, FALSE)

\* quads.len() once the player's quad, the floor and the walls are pushed.
FirstWaypointIdx(plan) == 2 + Len(Walls(plan))

\* translate of a waypoint: ((x, y) - half_bounds) * k + half_k, k = (35, -35).
Translate(c, b) ==
    <<(FLOOR_SCALE * c[1]) - ((FLOOR_SCALE \div 2) * b[1]) + (FLOOR_SCALE \div 2),
      ((FLOOR_SCALE \div 2) * b[2]) - (FLOOR_SCALE * c[2]) - (FLOOR_SCALE \div 2)>>

\* nodes: the translate of every waypoint, in order.
PlanNodes(plan) ==
    LET wps == Waypoints(plan)
    IN  [k \in 0 .. Len(wps) - 1 |-> Translate(wps[k + 1], Bounds(plan))]

\* map.get(&Vec2 { x, y }): the index inserted last for the cell, -1 for None.
MapGet(wps, c) ==
    LET ks == {k \in DOMAIN wps : wps[k] = c}
    IN  IF ks = {} THEN -1 ELSE (CHOOSE k \in ks : \A m \in ks : m <= k) - 1

\* The pairs pushed for waypoint a: the cells of the box around it, row by row,
\* other than the waypoint's own cell, that are waypoints.  The corners of the
\* box are u8: saturating_sub stops at 0, + 1 and - 1 wrap where the build does
\* not check them, and a range whose end is below its start is empty.
EdgesOfWaypoint(wps, b, a) ==
    LET x == wps[a + 1][1]
        y == wps[a + 1][2]
        min_x == IF x > 0 THEN x - 1 ELSE 0
        min_y == IF y > 0 THEN y - 1 ELSE 0
        max_x == IF U8(x + 1) < U8(b[1] - 1) THEN U8(x + 1) ELSE U8(b[1] - 1)
        max_y == IF U8(y + 1) < U8(b[2] - 1) THEN U8(y + 1) ELSE U8(b[2] - 1)
        nx == IF max_x < min_x THEN 0 ELSE (max_x - min_x) + 1
        ny == IF max_y < min_y THEN 0 ELSE (max_y - min_y) + 1
        box == [k \in 1 .. nx * ny |-> <<min_x + ((k - 1) % nx), min_y + ((k - 1) \div nx)>>]
        hits == SelectSeq(box, LAMBDA c : c # <<x, y>> /\ MapGet(wps, c) # -1)
    IN  [k \in 1 .. Len(hits) |-> <<a, MapGet(wps, hits[k])>>]

\* Some + 1 or - 1 on the corners of a box leaves the range of u8: a build
\* with overflow checks panics there, a build without them wraps.
Overflows(wps, b) ==
    \E a \in DOMAIN wps :
        \/ wps[a][1] + 1 > 255
        \/ wps[a][2] + 1 > 255
        \/ b[1] - 1 < 0
        \/ b[2] - 1 < 0

RECURSIVE GridEdgesFrom(_, _, _)
GridEdgesFrom(wps, b, a) ==
    IF a >= Len(wps) THEN <<>>
    ELSE EdgesOfWaypoint(wps, b, a) \o GridEdgesFrom(wps, b, a + 1)

\* edges: the pairs of 8-neighbour waypoints, each in both directions.
GridEdges(plan) == GridEdgesFrom(Waypoints(plan), Bounds(plan), 0)

\* assert!(i != *j) holds for every pair pushed.
EdgesAsserted(es) == \A k \in 1 .. Len(es) : es[k][1] # es[k][2]

\* The loop that fills main's weights: one cell per pair, which must be infinite
\* before (assert!); <<>> when the assertion fails.
RECURSIVE MainLoop(_, _, _, _)
MainLoop(w, ns, es, k) ==
    IF k > Len(es) THEN w
    ELSE LET n == Cardinality(DOMAIN ns)
             a == es[k][1]
             b == es[k][2]
         IN  IF ~IsInfinite(W(w, n, a, b)) THEN <<>>
             ELSE MainLoop([w EXCEPT ![(a * n) + b] = distance(ns[a], ns[b])],
                           ns, es, k + 1)

MainWeights(ns, es) == MainLoop(InfWeights(Cardinality(DOMAIN ns)), ns, es, 1)

\* A faulty variant of Nearer: an equal gap also wins.
NearerOrEqual(gap, min_gap) == gap <= min_gap

\* if gap < min_gap
Nearer(gap, min_gap) == gap < min_gap

\* geom::nearest(geoms, point): the scan from geom k on; geoms is the list of
\* the translates, index -> point.
RECURSIVE NearestLoop(_, _, _, _, _)
NearestLoop(geoms, point, k, min_gap, index) ==
    IF k >= Cardinality(DOMAIN geoms) THEN index
    ELSE LET gap == distance(point, geoms[k])
         IN  IF Nearer(gap, min_gap)
             THEN NearestLoop(geoms, point, k + 1, gap, k)
             ELSE NearestLoop(geoms, point, k + 1, min_gap, index)

nearest(geoms, point) == NearestLoop(geoms, point, 0, Inf, Cardinality(DOMAIN geoms))

\* quads[k].translate for the player's quad (0) and the waypoints' quads
\* (first_waypoint_idx on); the floor's and the walls' quads are never read.
QuadTranslate(m, ns, k) ==
    IF k = 0 THEN m.player ELSE ns[k - m.first_waypoint_idx]

\* quads.len()
QuadsLen(m, ns) == m.first_waypoint_idx + Cardinality(DOMAIN ns)

\* The scan of quads[first_waypoint_idx..] in the loop of main, from entry k of
\* the slice on.
RECURSIVE CursorLoop(_, _, _, _, _, _)
CursorLoop(m, ns, cursor, k, min_gap, cursor_waypoint_idx) ==
    IF m.first_waypoint_idx + k >= QuadsLen(m, ns) THEN cursor_waypoint_idx
    ELSE LET gap == distance(cursor, QuadTranslate(m, ns, m.first_waypoint_idx + k))
         IN  IF gap < min_gap
             THEN CursorLoop(m, ns, cursor, k + 1, gap, k)
             ELSE CursorLoop(m, ns, cursor, k + 1, min_gap, cursor_waypoint_idx)

\* let cursor_waypoint_idx = { ... first_waypoint_idx + cursor_waypoint_idx }
CursorWaypointIdx(m, ns, cursor) ==
    m.first_waypoint_idx + CursorLoop(m, ns, cursor, 0, Inf, QuadsLen(m, ns))

\* A faulty variant of SolveStart: the solve starts from the target.
SolveStartAtTarget(m) == m.cursor_waypoint_idx - m.first_waypoint_idx

\* The start handed to the solver: player_waypoint_idx - first_waypoint_idx.
SolveStart(m) == m.player_waypoint_idx - m.first_waypoint_idx

\* A faulty variant of Arrived: a gap of exactly the radius does not count.
ArrivedInside(gap) == gap < PLAYER_QUAD_SCALE \div 2

\* gap <= (PLAYER_QUAD_SCALE / 2.0)
Arrived(gap) == gap <= PLAYER_QUAD_SCALE \div 2

\* Where the mouse may point: the lattice of half cells around the origin, which
\* holds the waypoints of the plans and the points midway between them.
CursorSites ==
    {<<(FLOOR_SCALE \div 2) * a, (FLOOR_SCALE \div 2) * b>> : a \in -2 .. 2, b \in -1 .. 1}

\* Where the player's quad may be after a tick: on a waypoint, at the arrival
\* radius from it, or one unit beyond.  The integration of player_speed is not
\* followed: the quad may land on any of these.
PlayerSites(ns) ==
    {<<ns[k][1] + d, ns[k][2]>> :
        k \in DOMAIN ns,
        d \in {0, PLAYER_QUAD_SCALE \div 2, (PLAYER_QUAD_SCALE \div 2) + 1}}

\* main before its loop: the plan is parsed, nodes, edges and weights are built
\* (a failed assertion panics, and so does arithmetic out of range in a build
\* that checks it), the player stands on the first waypoint.
InitTick ==
    /\ \E plan \in Plans :
          /\ nodes = PlanNodes(plan)
          /\ weights = MainWeights(PlanNodes(plan), GridEdges(plan))
          /\ \/ pc = IF Parsed(plan)
                        /\ EdgesAsserted(GridEdges(plan))
                        /\ MainWeights(PlanNodes(plan), GridEdges(plan)) # <<>>
                     THEN "idle" ELSE "panic"
             \/ Overflows(Waypoints(plan), Bounds(plan)) /\ pc = "panic"
          /\ main = [plan               |-> plan,
                     first_waypoint_idx  |-> FirstWaypointIdx(plan),
                     player_waypoint_idx |-> FirstWaypointIdx(plan),
                     cursor_waypoint_idx |-> FirstWaypointIdx(plan),
                     world_cursor        |-> <<0, 0>>,
                     player              |-> PlanNodes(plan)[0],
                     phase               |-> "cursor",
                     repeat              |-> FALSE]
    /\ edges = <<>>
    /\ start = 0
    /\ end = 0
    /\ costs = <<>>
    /\ previous = <<>>
    /\ heap = <<>>
    /\ counter = 0
    /\ path = <<>>
    /\ i = 0
    /\ memo = <<>>
    /\ popped = <<>>

\* pathfinding::shortest_path(&nodes, &weights, start, end, &mut path_counter),
\* the free function main calls.  Its body is not among the sources: it is taken
\* to be Dijkstra::shortest_path over the matrix main built.
shortest_path(s, e) == Begin(s, e)

\* The head of one tick: world_cursor is read, the waypoint nearest to it is
\* found and the solver is called from the player's waypoint to it.  repeat
\* records that the call before was answered and had the same arguments.
TickBegin(cursor) ==
    /\ main.phase = "cursor"
    /\ \E target \in {CursorWaypointIdx(main, nodes, cursor)} :
          \E m \in {[main EXCEPT !.world_cursor = cursor, !.cursor_waypoint_idx = target]} :
             \E s \in {SolveStart(m)}, e \in {target - main.first_waypoint_idx} :
                /\ shortest_path(s, e)
                /\ main' = [m EXCEPT !.phase = "solve",
                                     !.repeat = (pc = "done" /\ s = start /\ e = end)]

\* A faulty variant of PathNext: the last node of the path, the target.
PathLast(p) == p[Len(p)]

\* path[1]: the node after the first on the solved path.
PathNext(p) == p[2]

\* The rest of the tick, the solver having returned path: the gap to the
\* player's waypoint is measured, the waypoint advances to path[1] when the
\* player has arrived and the path goes on, and the player's quad moves.
TickFinish(landing) ==
    /\ main.phase = "solve"
    /\ pc = "done"
    /\ \E gap \in {distance(QuadTranslate(main, nodes, main.player_waypoint_idx),
                            QuadTranslate(main, nodes, 0))} :
           main' = [main EXCEPT
                       !.player_waypoint_idx =
                           IF (1 < Len(path)) /\ Arrived(gap)
                           THEN main.first_waypoint_idx + PathNext(path)
                           ELSE @,
                       !.player = landing,
                       !.phase = "cursor"]
    /\ UNCHANGED <<nodes, edges, weights, pc, start, end, costs, previous, heap, counter, path, i,
                   memo, popped>>

NextTick ==
    \/ \E cursor \in CursorSites : TickBegin(cursor)
    \/ Pop
    \/ Exhausted
    \/ WalkStep
    \/ WalkEnd
    \/ \E landing \in PlayerSites(nodes) : TickFinish(landing)

SpecTick == InitTick /\ [][NextTick]_vars

\* The rest of some tick.
TickFinishes == \E landing \in PlayerSites(nodes) : TickFinish(landing)

\* The body of the loop is sequential code: a tick that has begun runs on, through
\* the solver's steps to its end.  Whether another tick begins is up to the
\* window (glfwWindowShouldClose).
SpecTickFair == SpecTick /\ WF_vars(Step \/ TickFinishes)

\* The queries with one earlier answer remembered.
SpecHist == InitHist /\ [][Next \/ Remember]_vars

(***************************************************************************)
(* Reference definitions for the properties.                               *)
(***************************************************************************)
\* The sum of the consecutive edge weights along p.
RECURSIVE PathCost(_, _, _)
PathCost(w, n, p) ==
    IF Len(p) <= 1 THEN 0
    ELSE Add(W(w, n, p[1], p[2]), PathCost(w, n, Tail(p)))

\* The simple paths from the end of p to e that extend p, as node sequences.
RECURSIVE Extensions(_, _, _, _)
Extensions(w, n, p, e) ==
    IF p[Len(p)] = e THEN {p}
    ELSE UNION {Extensions(w, n, Append(p, j), e) :
                   j \in {x \in 0 .. n - 1 :
                             /\ ~IsInfinite(W(w, n, p[Len(p)], x))
                             /\ \A k \in 1 .. Len(p) : p[k] # x}}

\* Every simple path from s to e, by exhaustive search.
SimplePaths(w, n, s, e) == Extensions(w, n, <<s>>, e)

\* The least total weight of a path from s to e; infinite when there is none.
MinCost(w, n, s, e) ==
    LET all == {PathCost(w, n, p) : p \in SimplePaths(w, n, s, e)}
    IN  IF all = {} THEN Inf ELSE CHOOSE c \in all : \A d \in all : c <= d

\* The simple paths from s to e of least total weight.
MinPaths(w, n, s, e) ==
    {p \in SimplePaths(w, n, s, e) : PathCost(w, n, p) = MinCost(w, n, s, e)}

\* The edge list es names the pair a, b in either orientation.
Listed(es, a, b) == \E k \in 1 .. Len(es) : es[k] = <<a, b>> \/ es[k] = <<b, a>>

\* The pairs of es, each once, lower index first, in index order.
Canonical(es, n) ==
    ListOf({IF es[k][1] <= es[k][2] THEN es[k] ELSE <<es[k][2], es[k][1]>> :
               k \in 1 .. Len(es)}, n)

\* The graph under query is the 4-cycle on the square with the diagonal 0-2.
IsCycleWithDiagonal ==
    /\ nodes = Square(4)
    /\ weights = NewWeights(Square(4), CycleEdges \o DiagonalEdge)

Built == pc # "new"

(***************************************************************************)
(* Properties.                                                             *)
(***************************************************************************)
\* C1: when end is reachable from start the query returns a path, and the sum of
\* the edge weights along the returned path is the least total weight of any
\* path from start to end, found by exhaustive search; on the 4-cycle with the
\* diagonal 0-2 the query (0, 2) returns [0, 2].
C1_Optimal ==
    /\ pc = "done" =>
          PathCost(weights, N, path) = MinCost(weights, N, start, end)
    /\ pc = "panic" => IsInfinite(MinCost(weights, N, start, end))
    /\ (pc = "done" /\ IsCycleWithDiagonal /\ start = 0 /\ end = 2) => path = <<0, 2>>

C1_Witness ==
    /\ pc = "done"
    /\ IsCycleWithDiagonal
    /\ start = 0
    /\ end = 2
    /\ path = <<0, 2>>
    /\ PathCost(weights, N, path) = 14142

\* C2: a returned path begins at start, ends at end, and each consecutive pair
\* of its nodes has a finite weight.
C2_PathValid ==
    pc = "done" =>
        /\ Len(path) >= 1
        /\ path[1] = start
        /\ path[Len(path)] = end
        /\ \A k \in 1 .. Len(path) - 1 : ~IsInfinite(W(weights, N, path[k], path[k + 1]))

C2_Witness == pc = "done" /\ Len(path) >= 3

\* C3: a query whose end is not reachable from start does not crash.
C3_UnreachableDoesNotCrash ==
    ~(pc = "panic" /\ IsInfinite(MinCost(weights, N, start, end)))

\* A natural number that bounds the steps a running query has left.  In the
\* loop: each relaxation lowers a cost (by at least one unit; an infinite cost
\* counts as 100000, above every finite cost) and pushes one entry, each pop
\* removes one entry.  In the walk: the cost of the cursor's node falls with
\* every step along the predecessors, the sentinel counting as 0.
Potential(c) == IF IsInfinite(c) THEN 100000 ELSE c

RECURSIVE SumPotential(_, _)
SumPotential(cs, k) ==
    IF k < 0 THEN 0 ELSE Potential(cs[k]) + SumPotential(cs, k - 1)

Rank ==
    IF pc = "search" THEN N + 2 + (2 * SumPotential(costs, N - 1)) + Len(heap)
    ELSE IF pc = "walk"
    THEN (IF i \in DOMAIN costs
          THEN 1 + Cardinality({j \in DOMAIN costs : costs[j] < costs[i]})
          ELSE 0)
    ELSE 0

Running == pc \in {"search", "walk"}

\* C4: every query terminates.  A running query always has a next step, the
\* loop is left only with end popped or the frontier empty, every step either
\* ends the query or lowers the rank, and the walk pushes at most N nodes,
\* whatever the graph.
C4_Terminates ==
    /\ [](Running => ENABLED Step)
    /\ [][(pc = "search" /\ pc' = "walk") => (heap = <<>> \/ heap[PopIndex(heap)].index = end)]_vars
    /\ [][Running => (pc' \in {"done", "panic"} \/ Rank' < Rank)]_vars
    /\ [](pc \in {"walk", "done", "panic"} => Len(path) <= N)

C4_Witness ==
    /\ pc = "panic"
    /\ IsInfinite(MinCost(weights, N, start, end))
    /\ \E a \in 0 .. N - 1, b \in 0 .. N - 1 : W(weights, N, a, b) < 10

\* C5: a query from a node to itself returns the single-element path of that
\* node, also when the node has no edges.
C5_SelfPath ==
    (Built /\ pc # "idle" /\ start = end) =>
        /\ pc # "panic"
        /\ pc = "done" => path = <<start>>

C5_Witness ==
    /\ pc = "done"
    /\ start = end
    /\ path = <<start>>
    /\ N >= 2
    /\ \A b \in 0 .. N - 1 : IsInfinite(W(weights, N, start, b))

\* C6: a query that was answered before is answered again with the same path,
\* whatever queries ran in between and whatever the counter held.
C6_Deterministic ==
    (memo # <<>> /\ memo.start = start /\ memo.end = end) =>
        /\ pc # "panic"
        /\ pc = "done" => path = memo.path

C6_Witness ==
    /\ pc = "done"
    /\ memo # <<>>
    /\ memo.start = start
    /\ memo.end = end
    /\ memo.later = 2
    /\ Len(path) >= 3

\* C7: after new, for a /= b the weight of (a, b) is finite exactly when the edge
\* list names the pair in either orientation, and then both cells hold the
\* distance of the two nodes; every other off-diagonal cell is infinite.
C7_Builder ==
    pc = "idle" =>
        \A a \in 0 .. N - 1, b \in 0 .. N - 1 :
            a # b =>
                /\ ~IsInfinite(W(weights, N, a, b)) <=> Listed(edges, a, b)
                /\ Listed(edges, a, b) =>
                      /\ W(weights, N, a, b) = distance(nodes[a], nodes[b])
                      /\ W(weights, N, b, a) = distance(nodes[a], nodes[b])
                /\ W(weights, N, a, b) = W(weights, N, b, a)

C7_Witness ==
    /\ pc = "idle"
    /\ N = 3
    /\ edges = <<<<2, 0>>>>
    /\ W(weights, N, 0, 2) = 14142
    /\ W(weights, N, 2, 0) = 14142
    /\ IsInfinite(W(weights, N, 0, 1))

\* C8, as claimed: every diagonal cell of the built matrix is 0.
C8_DiagonalZero ==
    pc = "idle" => \A a \in 0 .. N - 1 : W(weights, N, a, a) = 0

\* C8, amended: a diagonal cell of the built matrix is infinite unless the edge
\* list names the pair (a, a), in which case it is the distance of the node to
\* itself, which is positive; it is never 0.
C8_Diagonal ==
    pc = "idle" =>
        \A a \in 0 .. N - 1 :
            /\ W(weights, N, a, a) =
                  IF Listed(edges, a, a) THEN distance(nodes[a], nodes[a]) ELSE Inf
            /\ W(weights, N, a, a) > 0

C8_Witness ==
    /\ pc = "idle"
    /\ N = 3
    /\ Len(edges) = 3
    /\ \A k \in 1 .. Len(edges) : edges[k][1] # edges[k][2]
    /\ \A a \in 0 .. N - 1 : IsInfinite(W(weights, N, a, a))

\* C9: the built matrix depends only on the set of unordered pairs the edge list
\* names: it is the matrix built from those pairs listed once each, lower index
\* first, in index order.
C9_EdgeListOrder ==
    pc = "idle" => weights = NewWeights(nodes, Canonical(edges, N))

C9_Witness ==
    /\ pc = "idle"
    /\ edges = <<<<2, 1>>, <<1, 0>>, <<1, 2>>>>
    /\ Canonical(edges, N) = <<<<0, 1>>, <<1, 2>>>>

\* C10: a query and the reverse query, both answered, have equal total cost, and
\* when the least-cost path is unique the two paths are reverses of each other;
\* the reverse of an answered query is answered too.
C10_Symmetric ==
    (memo # <<>> /\ memo.start = end /\ memo.end = start) =>
        /\ pc # "panic"
        /\ pc = "done" =>
              /\ PathCost(weights, N, path) = PathCost(weights, N, memo.path)
              /\ Cardinality(MinPaths(weights, N, start, end)) = 1 =>
                    path = Reverse(memo.path)

C10_Witness ==
    /\ pc = "done"
    /\ memo # <<>>
    /\ memo.start = end
    /\ memo.end = start
    /\ Len(path) >= 3
    /\ Cardinality(MinPaths(weights, N, start, end)) = 1
    /\ path = Reverse(memo.path)

(***************************************************************************)
(* The frontier and the loop body.                                         *)
(***************************************************************************)
\* The entry the next heap.pop() returns.
Top == heap[PopIndex(heap)]

\* A step that is one iteration of the loop.
PopStep == pc = "search" /\ counter' = counter + 1

\* Entry k of h has the least cost, and the lowest index among the entries of
\* that cost.
LowestFirst(h, k) ==
    \A m \in DOMAIN h :
        \/ h[k].cost < h[m].cost
        \/ h[k].cost = h[m].cost /\ h[k].index <= h[m].index

\* Entry k of h has the least cost, and the highest index among the entries of
\* that cost.
HighestFirst(h, k) ==
    \A m \in DOMAIN h :
        \/ h[k].cost < h[m].cost
        \/ h[k].cost = h[m].cost /\ h[k].index >= h[m].index

\* The step took entry k out of the frontier (and pushed behind the others).
Taken(k) == SubSeq(heap', 1, Len(heap) - 1) = RemoveAt(heap, k)

\* The graph under query is the 4-cycle on the square.
IsCycle ==
    /\ nodes = Square(4)
    /\ weights = NewWeights(Square(4), CycleEdges)

\* C16 as stated: the frontier pops in ascending cost, entries of equal cost in
\* descending node index (the highest first), and the query (0, 2) on the
\* 4-cycle returns [0, 1, 2] or [0, 3, 2].
C16_TieDescending ==
    /\ [][PopStep => \E k \in DOMAIN heap : HighestFirst(heap, k) /\ Taken(k)]_vars
    /\ [](IsCycle /\ start = 0 /\ end = 2 /\ pc = "done"
             => path \in {<<0, 1, 2>>, <<0, 3, 2>>})

\* C16: the frontier pops in ascending cost, entries of equal cost in ascending
\* node index (the lowest first), and the query (0, 2) on the 4-cycle returns
\* [0, 1, 2].
C16_TieAscending ==
    /\ [][PopStep => \E k \in DOMAIN heap : LowestFirst(heap, k) /\ Taken(k)]_vars
    /\ [](IsCycle /\ start = 0 /\ end = 2 /\ pc = "done" => path = <<0, 1, 2>>)

C16_Witness ==
    /\ IsCycle
    /\ start = 0
    /\ end = 2
    /\ pc = "done"
    /\ path = <<0, 1, 2>>
    /\ counter = 4

\* The neighbours the expansion of node relaxes: the weight is finite and the
\* cost through node is below the neighbour's cost.
Relaxed(node) ==
    {j \in 0 .. N - 1 :
        /\ ~IsInfinite(W(weights, N, node.index, j))
        /\ Add(costs[node.index], W(weights, N, node.index, j)) < costs[j]}

\* C17: a popped entry, other than one for end, whose cost is above the cost of
\* its node changes no cost and no predecessor and pushes nothing; one whose
\* cost equals the cost of its node sets cost and predecessor of exactly the
\* neighbours j with a finite weight and cost[node] + weight < cost[j], pushes
\* (j, cost[j]) for exactly those, and leaves the other nodes alone.
C17_StaleSkipped ==
    [][(PopStep /\ Top.index # end) =>
        LET node == Top
            rest == RemoveAt(heap, PopIndex(heap))
        IN  /\ node.cost > costs[node.index] =>
                   costs' = costs /\ previous' = previous /\ heap' = rest
            /\ node.cost = costs[node.index] =>
                   /\ \A j \in 0 .. N - 1 :
                          IF j \in Relaxed(node)
                          THEN /\ costs'[j] = Add(costs[node.index],
                                                  W(weights, N, node.index, j))
                               /\ previous'[j] = node.index
                          ELSE /\ costs'[j] = costs[j]
                               /\ previous'[j] = previous[j]
                   /\ Len(heap') = Len(rest) + Cardinality(Relaxed(node))
                   /\ SubSeq(heap', 1, Len(rest)) = rest
                   /\ \A j \in Relaxed(node) :
                          \E k \in Len(rest) + 1 .. Len(heap') :
                              heap'[k] = [index |-> j, cost |-> costs'[j]]]_vars

\* The next pop returns a stale entry that is not for end, and an entry for a
\* node with neighbours to relax waits behind it or was expanded before it.
C17_Witness ==
    /\ pc = "search"
    /\ heap # <<>>
    /\ counter >= 2
    /\ Top.index # end
    /\ Top.cost > costs[Top.index]
    /\ previous[Top.index] # start

\* The loop body after the break test: the stale test and the expansion.
LoopBody(s, w, n, node) ==
    IF s.costs[node.index] < node.cost THEN s ELSE RelaxLoop(s, w, n, node, 0)

\* The loop without `if node.index == end { break; }`: it runs until pop
\* returns None.
RECURSIVE Exhaust(_, _, _)
Exhaust(s, w, n) ==
    IF s.heap = <<>> THEN s
    ELSE LET k == PopIndex(s.heap)
         IN  Exhaust(LoopBody([s EXCEPT !.heap = RemoveAt(s.heap, k)], w, n, s.heap[k]),
                     w, n)

\* The buffers when the loop is entered.
Entered(n, s) ==
    [costs    |-> [AllocCosts(n) EXCEPT ![s] = 0],
     previous |-> AllocPrevious(n),
     heap     |-> <<[index |-> s, cost |-> 0]>>]

\* The walk along prev from k to s, the nodes collected so far being p; <<>> when
\* the walk leaves the table or does not end.
RECURSIVE Walk(_, _, _, _)
Walk(prev, s, k, p) ==
    IF k = s THEN Finish(p, s)
    ELSE IF k \notin DOMAIN prev \/ Len(p) > Cardinality(DOMAIN prev) THEN <<>>
    ELSE Walk(prev, s, prev[k], Append(p, k))

\* C18: the path returned after the break at end is the path the predecessors
\* give when the same search runs until the frontier is empty.
C18_EarlyBreak ==
    pc = "done" => path = Walk(Exhaust(Entered(N, start), weights, N).previous,
                               start, end, <<>>)

\* A query that broke with entries left, of which the exhaustive run expands
\* some: its costs end below the costs at the break.
C18_Witness ==
    /\ pc = "done"
    /\ Len(path) >= 3
    /\ heap # <<>>
    /\ Exhaust(Entered(N, start), weights, N).costs # costs

\* C20: in a query, costs[start] is 0 and previous[start] is the sentinel N; a
\* node other than start has a finite cost exactly when it has a predecessor,
\* the predecessor is then a node joined to it by a finite weight, and the cost
\* is the predecessor's cost plus that weight; a frontier entry's cost is never
\* below the cost of its node.
C20_Bookkeeping ==
    pc \in {"search", "walk", "done", "panic"} =>
        /\ costs[start] = 0
        /\ previous[start] = N
        /\ \A j \in (0 .. N - 1) \ {start} :
               /\ ~IsInfinite(costs[j]) <=> previous[j] # N
               /\ previous[j] # N =>
                      /\ previous[j] \in 0 .. N - 1
                      /\ ~IsInfinite(W(weights, N, previous[j], j))
                      /\ costs[j] = Add(costs[previous[j]], W(weights, N, previous[j], j))
        /\ \A k \in DOMAIN heap : heap[k].cost >= costs[heap[k].index]

\* A search in which a node was reached through a node other than start and an
\* entry above the cost of its node is in the frontier.
C20_Witness ==
    /\ pc = "search"
    /\ \E j \in 0 .. N - 1 : previous[j] \in (0 .. N - 1) \ {start}
    /\ \E k \in DOMAIN heap : heap[k].cost > costs[heap[k].index]

\* Every endpoint of the edge list es is an index into n nodes.
EdgesInRange(es, n) ==
    \A k \in 1 .. Len(es) : es[k][1] \in 0 .. n - 1 /\ es[k][2] \in 0 .. n - 1

\* C13: an index out of range never yields a result.  new returns a matrix only
\* for a list with every endpoint in range, and a panicking new has written no
\* matrix; a query is searched only with start in range and returns only with
\* end in range as well; and a query never stops short of its panic or return.
C13_OutOfRangePanics ==
    /\ [](pc = "idle" => EdgesInRange(edges, N))
    /\ [][pc = "new" /\ ~EdgesInRange(edges, N) => pc' = "panic" /\ weights' = <<>>]_vars
    /\ [](pc \in {"search", "walk", "done"} => start \in 0 .. N - 1)
    /\ [](pc = "done" => end \in 0 .. N - 1)
    /\ [](Running => ENABLED Step)

\* A query with start in range and end out of range searched the whole graph and
\* panicked in the walk.
C13_Witness ==
    /\ pc = "panic"
    /\ weights # <<>>
    /\ start \in 0 .. N - 1
    /\ end \notin 0 .. N - 1
    /\ counter >= 2
    /\ path = <<end>>

(***************************************************************************)
(* Properties of the loop of main.                                         *)
(***************************************************************************)
\* The step ends a tick: the waypoint is settled and the player's quad moves.
TickEnds == main.phase = "solve" /\ main'.phase = "cursor"

\* C11: in a tick the player's waypoint changes exactly when the solved path has
\* more than one node and the player's distance to the waypoint is at most
\* PLAYER_QUAD_SCALE / 2; it then becomes the path's element at index 1; no
\* other step of the tick changes it.
C11_WaypointAdvance ==
    [][/\ TickEnds =>
            LET gap == distance(nodes[main.player_waypoint_idx - main.first_waypoint_idx],
                                main.player)
                met == Len(path) > 1 /\ gap <= PLAYER_QUAD_SCALE \div 2
            IN  /\ main'.player_waypoint_idx # main.player_waypoint_idx <=> met
                /\ met => main'.player_waypoint_idx = main.first_waypoint_idx + path[2]
       /\ ~TickEnds => main'.player_waypoint_idx = main.player_waypoint_idx]_vars

\* A tick has just advanced the waypoint from the start of its path to the
\* path's second node.
C11_Witness ==
    /\ main.phase = "cursor"
    /\ pc = "done"
    /\ Len(path) > 1
    /\ main.player_waypoint_idx = main.first_waypoint_idx + path[2]
    /\ main.player_waypoint_idx # main.first_waypoint_idx + start

\* The gap between the cursor and waypoint k.
CursorGap(k) == distance(main.world_cursor, nodes[k])

\* C12: over the waypoints, geom::nearest returns an index of least distance to
\* the cursor, the lowest of the indices at that distance, and the scan in the
\* loop of main finds the same waypoint.
C12_Nearest ==
    main.phase = "solve" =>
        LET index == nearest(nodes, main.world_cursor)
        IN  /\ index \in 0 .. N - 1
            /\ \A k \in 0 .. N - 1 : CursorGap(index) <= CursorGap(k)
            /\ \A k \in 0 .. index - 1 : CursorGap(index) < CursorGap(k)
            /\ main.cursor_waypoint_idx = main.first_waypoint_idx + index

\* The cursor is as near to a later waypoint as to the one found, which is not
\* the first.
C12_Witness ==
    /\ main.phase = "solve"
    /\ main.cursor_waypoint_idx > main.first_waypoint_idx
    /\ \E k \in 0 .. N - 1 :
           /\ k > main.cursor_waypoint_idx - main.first_waypoint_idx
           /\ CursorGap(k) = CursorGap(main.cursor_waypoint_idx - main.first_waypoint_idx)

\* C14: every tick makes one full solve.  The only step at the head of a tick
\* finds the waypoint nearest to the cursor and enters the solver with start the
\* player's waypoint and end that waypoint; during the solve the arguments
\* stay those, no second solve is entered, and the tick ends only when the
\* solver has returned; the player's waypoint changes only then.
C14_OneSolvePerTick ==
    /\ [][main.phase = "cursor" =>
            /\ main'.phase = "solve"
            /\ main'.cursor_waypoint_idx =
                   main.first_waypoint_idx + nearest(nodes, main'.world_cursor)
            /\ pc' = "search"
            /\ counter' = 0
            /\ start' = main.player_waypoint_idx - main.first_waypoint_idx
            /\ end' = main'.cursor_waypoint_idx - main.first_waypoint_idx
            /\ heap' = <<[index |-> start', cost |-> 0]>>
            /\ main'.player_waypoint_idx = main.player_waypoint_idx]_vars
    /\ [](main.phase = "solve" =>
            /\ pc \in {"search", "walk", "done", "panic"}
            /\ start = main.player_waypoint_idx - main.first_waypoint_idx
            /\ end = main.cursor_waypoint_idx - main.first_waypoint_idx)
    /\ [][main.phase = "solve" /\ pc # "search" => pc' # "search"]_vars
    /\ [][TickEnds => pc = "done" /\ path[1] = start /\ path[Len(path)] = end]_vars
    /\ [][main'.player_waypoint_idx # main.player_waypoint_idx => TickEnds]_vars

\* A tick whose waypoint and target are those of the tick before has solved
\* again, in full.
C14_Witness ==
    /\ main.phase = "solve"
    /\ main.repeat
    /\ pc = "done"
    /\ counter >= 2
    /\ Len(path) >= 2

\* C19: new takes no pair (a, a) into the matrix: with such a pair in the list
\* it does not return, or the cell (a, a) holds no finite positive weight.
C19_SelfLoopRejected ==
    pc = "idle" =>
        \A a \in 0 .. N - 1 :
            Listed(edges, a, a) =>
                ~(~IsInfinite(W(weights, N, a, a)) /\ W(weights, N, a, a) > 0)

(***************************************************************************)
(* The A*-style strategy of the solver, as the specification gives it: the *)
(* relaxation of the Dijkstra core, the frontier ordered by                *)
(* cost[node] + heuristic[node].  Its code is not among the sources.       *)
(***************************************************************************)
\* heuristic[node] = distance(nodes[node], nodes[end]), computed once per query.
AStarHeuristic(ns, e) == [k \in DOMAIN ns |-> distance(ns[k], ns[e])]

\* The order of the frontier: cost + estimate reversed, then the index reversed
\* as in Ord::cmp.
AStarCmp(self, other) ==
    LET c == total_cmp(Add(other.cost, other.estimate), Add(self.cost, self.estimate))
    IN  IF c # "Equal" THEN c ELSE total_cmp(other.index, self.index)

AStarPopIndex(h) ==
    CHOOSE k \in 1 .. Len(h) :
        /\ \A m \in 1 .. Len(h) : AStarCmp(h[k], h[m]) # "Less"
        /\ \A m \in 1 .. k - 1 : AStarCmp(h[m], h[k]) = "Less"

\* The relaxation of one expansion from column j on; an entry carries the
\* estimate of its node.
RECURSIVE AStarRelax(_, _, _, _, _, _)
AStarRelax(s, w, n, h, node, j) ==
    IF j >= n THEN s
    ELSE IF IsInfinite(W(w, n, node.index, j)) THEN AStarRelax(s, w, n, h, node, j + 1)
    ELSE LET cost == Add(node.cost, W(w, n, node.index, j))
         IN  IF cost < s.costs[j]
             THEN AStarRelax([costs    |-> [s.costs EXCEPT ![j] = cost],
                              previous |-> [s.previous EXCEPT ![j] = node.index],
                              heap     |-> Append(s.heap, [index |-> j, cost |-> cost,
                                                           estimate |-> h[j]])],
                             w, n, h, node, j + 1)
             ELSE AStarRelax(s, w, n, h, node, j + 1)

\* The loop: pop the least cost + estimate, stop at e, skip a stale entry, relax.
RECURSIVE AStarSearch(_, _, _, _, _)
AStarSearch(s, w, n, h, e) ==
    IF s.heap = <<>> THEN s
    ELSE LET k == AStarPopIndex(s.heap)
             node == s.heap[k]
             rest == [s EXCEPT !.heap = RemoveAt(s.heap, k)]
         IN  IF node.index = e THEN rest
             ELSE IF s.costs[node.index] < node.cost THEN AStarSearch(rest, w, n, h, e)
             ELSE AStarSearch(AStarRelax(rest, w, n, h, node, 0), w, n, h, e)

\* The path of the A*-style strategy from s to e; <<>> when e is not reached.
AStarPath(w, ns, s, e) ==
    LET n == Cardinality(DOMAIN ns)
        h == AStarHeuristic(ns, e)
        entered == [costs    |-> [AllocCosts(n) EXCEPT ![s] = 0],
                    previous |-> AllocPrevious(n),
                    heap     |-> <<[index |-> s, cost |-> 0, estimate |-> h[s]]>>]
    IN  Walk(AStarSearch(entered, w, n, h, e).previous, s, e, <<>>)

\* C15: for a query that returns, the A*-style strategy returns a path from
\* start to end on the same graph whose total weight equals that of the path
\* Dijkstra::shortest_path returns.
C15_SameCost ==
    pc = "done" =>
        LET p == AStarPath(weights, nodes, start, end)
        IN  /\ p # <<>>
            /\ p[1] = start
            /\ p[Len(p)] = end
            /\ PathCost(weights, N, p) = PathCost(weights, N, path)

\* The two strategies return different paths of several hops.
C15_Witness ==
    /\ pc = "done"
    /\ Len(path) >= 3
    /\ AStarPath(weights, nodes, start, end) # path

(***************************************************************************)
(* The loop's history, the counter and the shape of the returned path.     *)
(***************************************************************************)
\* The positions of the history at which the neighbours of the popped node
\* were relaxed.
Expanded == {k \in 1 .. Len(popped) : popped[k].did = "relax"}

\* The ordered pairs (a, b) whose weight is finite.
FiniteCells ==
    {c \in (0 .. N - 1) \X (0 .. N - 1) : ~IsInfinite(W(weights, N, c[1], c[2]))}

\* C21: within one query no node has its neighbours relaxed twice, and the cost
\* and the predecessor of a node whose neighbours were relaxed are still the
\* ones it was popped with.
C21_ExpandedOnce ==
    /\ \A a, b \in Expanded : popped[a].node.index = popped[b].node.index => a = b
    /\ \A a \in Expanded :
          /\ costs[popped[a].node.index] = popped[a].node.cost
          /\ previous[popped[a].node.index] = popped[a].previous

\* A second entry of a node was popped after the node's neighbours were relaxed.
C21_Witness ==
    /\ pc = "done"
    /\ \E a \in Expanded : \E b \in a + 1 .. Len(popped) :
          popped[b].node.index = popped[a].node.index

\* C25: a query that returns leaves in the counter the number of entries it
\* popped, whatever the counter held before: at least 1, exactly 1 when start
\* is end (the start entry is popped and nothing is relaxed), and never more
\* than 1 plus the number of ordered pairs of finite weight; the count runs
\* from 0 while the loop runs.
C25_Counter ==
    /\ pc \in {"search", "walk", "done"} => counter = Len(popped)
    /\ pc = "done" =>
          /\ counter >= 1
          /\ start = end => counter = 1 /\ Expanded = {}
          /\ counter <= 1 + Cardinality(FiniteCells)

\* A query begun with a counter left over from an earlier one has returned
\* after several pops.
C25_Witness ==
    /\ memo # <<>>
    /\ memo.later >= 1
    /\ pc = "done"
    /\ start # end
    /\ counter >= 3

\* C26: a returned path names no node twice, is no longer than the N entries
\* reserved for it, and every entry of it is a node index below N.
C26_Simple ==
    pc = "done" =>
        /\ \A a, b \in 1 .. Len(path) : path[a] = path[b] => a = b
        /\ Len(path) <= N
        /\ \A a \in 1 .. Len(path) : path[a] \in 0 .. N - 1

\* A returned path that fills the reserved capacity.
C26_Witness == pc = "done" /\ N >= 3 /\ Len(path) = N

(***************************************************************************)
(* The waypoint graph main builds.                                         *)
(***************************************************************************)
\* Every pair of the list is in it the other way round as well.
EdgeListSymmetric(es) ==
    \A k \in 1 .. Len(es) : \E m \in 1 .. Len(es) : es[m] = <<es[k][2], es[k][1]>>

\* No pair is in the list twice.
EdgeListOnce(es) == \A k, m \in 1 .. Len(es) : es[k] = es[m] => k = m

\* C24: for every floor plan the edge list of main holds (j, i) with every
\* (i, j) and no pair twice, the corners of the neighbour boxes stay within u8,
\* the assertions of the two loops hold, and the matrix is symmetric.
C24_GridSymmetric ==
    LET es == GridEdges(main.plan)
    IN  /\ EdgeListSymmetric(es)
        /\ EdgeListOnce(es)
        /\ ~Overflows(Waypoints(main.plan), Bounds(main.plan))
        /\ EdgesAsserted(es)
        /\ MainWeights(nodes, es) # <<>>
        /\ \A a, b \in 0 .. N - 1 : W(weights, N, a, b) = W(weights, N, b, a)

(***************************************************************************)
(* The player's waypoint over the ticks.                                   *)
(***************************************************************************)
\* The player's waypoint as an index into nodes.
PlayerNode == main.player_waypoint_idx - main.first_waypoint_idx

\* C23: the player's waypoint index always names a waypoint's quad, at
\* first_waypoint_idx or above and below quads.len(), and a step that changes
\* it moves it along an edge of finite weight from the waypoint before.
C23_OneHop ==
    /\ [](/\ main.first_waypoint_idx <= main.player_waypoint_idx
          /\ main.player_waypoint_idx < QuadsLen(main, nodes)
          /\ PlayerNode \in 0 .. N - 1)
    /\ [][main'.player_waypoint_idx # main.player_waypoint_idx =>
             ~IsInfinite(W(weights, N, PlayerNode, PlayerNode'))]_vars

\* A tick has just moved the player's waypoint one hop, to a waypoint that no
\* edge joins to the first one.
C23_Witness ==
    /\ main.phase = "cursor"
    /\ pc = "done"
    /\ Len(path) >= 2
    /\ PlayerNode = path[2]
    /\ PlayerNode # 0
    /\ IsInfinite(W(weights, N, 0, PlayerNode))

\* The target of the last solve as an index into nodes.
TargetNode == main.cursor_waypoint_idx - main.first_waypoint_idx

\* The greatest number of waypoints of a plan.
MostWaypoints ==
    LET ls == {Len(Waypoints(plan)) : plan \in Plans}
    IN  CHOOSE m \in ls : \A v \in ls : v <= m

\* The step ends a tick in which the player is within the arrival radius of its
\* waypoint.
ArrivedTick ==
    /\ TickEnds
    /\ distance(nodes[PlayerNode], main.player) <= PLAYER_QUAD_SCALE \div 2

\* C22: if from some tick on the target is t and ticks in which the player is
\* within the arrival radius keep coming, the player's waypoint becomes t and
\* stays t.  A tick that finds the player arrived and its waypoint not the target
\* advances the waypoint; every advance strictly lowers the least cost from the
\* waypoint to the target; and a waypoint that is the target is kept.
C22_ReachesTarget ==
    /\ \A t \in 0 .. MostWaypoints - 1 :
          (<>[](TargetNode = t) /\ []<><<ArrivedTick>>_vars) => <>[](PlayerNode = t)
    /\ [][ArrivedTick /\ PlayerNode # TargetNode => PlayerNode' # PlayerNode]_vars
    /\ [][PlayerNode' # PlayerNode =>
             MinCost(weights, N, PlayerNode', TargetNode)
                 < MinCost(weights, N, PlayerNode, TargetNode)]_vars
    /\ [][TickEnds /\ PlayerNode = TargetNode => PlayerNode' = PlayerNode]_vars

\* The player's waypoint has reached a target that no edge joins to the first
\* waypoint, and a further tick has kept it there.
C22_Witness ==
    /\ main.phase = "cursor"
    /\ pc = "done"
    /\ Len(path) = 1
    /\ PlayerNode = TargetNode
    /\ PlayerNode # 0
    /\ IsInfinite(W(weights, N, 0, PlayerNode))

====
